---- MODULE Spec2Model ----
(***************************************************************************)
(* HistoricCSVDataHandler of backtester_py/data.py: the CSV loader that    *)
(* reindexes every symbol's DataFrame, the drip feed update_bars and the   *)
(* five accessors over latest_symbol_data.                                 *)
(*                                                                         *)
(* A DataFrame is a sequence of rows; a row is the pandas Series iterrows  *)
(* yields: a record of the six data columns plus `name`, the index label   *)
(* (the timestamp).  A bar is the tuple <<label, row>> of iterrows.        *)
(* A CSV file holds rows with distinct timestamps, in ascending or in      *)
(* descending order on disk; the value of a cell is an injective function  *)
(* of (symbol, timestamp, column), so a row copied from another timestamp  *)
(* is always told apart from the native one.                               *)
(***************************************************************************)
EXTENDS Integers, Sequences, FiniteSets, TLC

\* ---- bounds ----
MaxTs == 3          \* timestamps of the files are 1..MaxTs
MaxAdvance == 5     \* update_bars is called at most MaxAdvance times
MaxN == 2           \* the accessors' N ranges over 0..MaxN

VARIABLES
    symbol_list,          \* self.symbol_list
    csv,                  \* the files <csv_dir>/<symbol>.csv, rows in disk order
    symbol_data,          \* self.symbol_data: per symbol the reindexed frame iterrows() walks
    cursor,               \* per symbol, how many rows its iterrows() generator has produced
    latest_symbol_data,   \* self.latest_symbol_data
    continue_backtest,    \* self.continue_backtest
    events,               \* self.events, the queue update_bars puts on
    nAdvance,             \* number of update_bars calls made so far
    result                \* outcome of the last call made on the handler

vars == <<symbol_list, csv, symbol_data, cursor, latest_symbol_data,
          continue_backtest, events, nAdvance, result>>

\* ---- inputs ----
Timestamps == 1..MaxTs
SymbolLists == {<<"A">>, <<"A", "B">>}
QuerySymbols == {"A", "B", "Z"}
QueryFields == {"close", "bogus"}
QueryN == 0..MaxN

\* ---- helpers ----
Range(f) == {f[i] : i \in DOMAIN f}

SetMax(S) == CHOOSE x \in S : \A y \in S : y <= x

SetMin(S) == CHOOSE x \in S : \A y \in S : x <= y

RECURSIVE AscSeq(_)
AscSeq(S) == IF S = {} THEN <<>>
             ELSE <<SetMin(S)>> \o AscSeq(S \ {SetMin(S)})

RECURSIVE DescSeq(_)
DescSeq(S) == IF S = {} THEN <<>>
              ELSE <<SetMax(S)>> \o DescSeq(S \ {SetMax(S)})

\* ---- the CSV files ----
Columns == {"open", "high", "low", "close", "adj_close", "volume"}

SymBase(s) == IF s = "A" THEN 9 ELSE 99

ColOffset(c) == CASE c = "close" -> 0
                  [] c = "open" -> 1000
                  [] c = "high" -> 2000
                  [] c = "low" -> 3000
                  [] c = "adj_close" -> 4000
                  [] c = "volume" -> 5000

Cell(s, t, c) == SymBase(s) + t + ColOffset(c)

NaN == -1

FileRow(s, t) == [name |-> t,
                  open |-> Cell(s, t, "open"), high |-> Cell(s, t, "high"),
                  low |-> Cell(s, t, "low"), close |-> Cell(s, t, "close"),
                  adj_close |-> Cell(s, t, "adj_close"),
                  volume |-> Cell(s, t, "volume")]

NaNRow(t) == [name |-> t, open |-> NaN, high |-> NaN, low |-> NaN,
              close |-> NaN, adj_close |-> NaN, volume |-> NaN]

\* the possible contents of <symbol>.csv: a non-empty set of timestamps, written
\* oldest first or newest first
CsvFiles(s) == UNION {{[i \in 1..Cardinality(T) |-> FileRow(s, AscSeq(T)[i])],
                       [i \in 1..Cardinality(T) |-> FileRow(s, DescSeq(T)[i])]}
                      : T \in (SUBSET Timestamps) \ {{}}}

\* ---- pandas ----
sort_values_none(df) == df

\* DataFrame.sort_values('datetime'): stable ascending sort on the index label
RECURSIVE sort_values(_)
sort_values(df) ==
    IF df = <<>> THEN <<>>
    ELSE LET m == SetMin({df[i].name : i \in 1..Len(df)})
             k == SetMin({i \in 1..Len(df) : df[i].name = m})
         IN <<df[k]>> \o sort_values(SubSeq(df, 1, k - 1) \o SubSeq(df, k + 1, Len(df)))

\* DataFrame.index
Index(df) == [i \in 1..Len(df) |-> df[i].name]

reindex_none(df, index) == df

reindex_dropna(df, index) ==
    LET kept == {i \in 1..Len(index) : \E j \in 1..Len(df) : df[j].name <= index[i]}
        first == IF kept = {} THEN Len(index) + 1 ELSE SetMin(kept)
    IN [i \in 1..(Len(index) + 1 - first) |->
          LET t == index[first + i - 1]
              P == {j \in 1..Len(df) : df[j].name <= t}
          IN [df[SetMax(P)] EXCEPT !.name = t]]

\* DataFrame.reindex(index=index, method='pad'): one row per label of index;
\* the row of df with the last label <= the wanted one, NaN when there is none
reindex(df, index) ==
    [i \in 1..Len(index) |->
        LET P == {j \in 1..Len(df) : df[j].name <= index[i]}
        IN IF P = {} THEN NaNRow(index[i])
           ELSE [df[SetMax(P)] EXCEPT !.name = index[i]]]

\* ---- _open_convert_csv_files ----
\* first loop: read_csv(...).sort_values('datetime')
read_csv(files, s) == sort_values(files[s])

\* comb_index is computed once, after the loop, when s is the last symbol
comb_index(files, sl) == Index(read_csv(files, sl[Len(sl)]))

open_convert_csv_files(files, sl) ==
    [s \in Range(sl) |-> reindex(read_csv(files, s), comb_index(files, sl))]

Registered == Range(symbol_list)

\* ---- outcomes of a call: a returned value or the exception raised ----
Ok(v) == [kind |-> "ok", value |-> v]

Raise(e) == [kind |-> e, value |-> <<>>]

Call(op, symbol, val_type, N, out) ==
    [op |-> op, symbol |-> symbol, val_type |-> val_type, N |-> N,
     kind |-> out.kind, value |-> out.value]

Init ==
    /\ symbol_list \in SymbolLists
    /\ csv \in [Range(symbol_list) -> UNION {CsvFiles(s) : s \in Range(symbol_list)}]
    /\ \A s \in Range(symbol_list) : csv[s] \in CsvFiles(s)
    /\ symbol_data = open_convert_csv_files(csv, symbol_list)
    /\ cursor = [s \in Range(symbol_list) |-> 0]
    /\ latest_symbol_data = [s \in Range(symbol_list) |-> <<>>]
    /\ continue_backtest = TRUE
    /\ events = <<>>
    /\ nAdvance = 0
    /\ result = Call("__init__", "", "", 1, Ok(<<>>))

\* ---- update_bars ----
\* next(self._get_new_bar(s)): the next row of the shared iterrows() generator
exhausted(s) == cursor[s] >= Len(symbol_data[s])

get_new_bar(s) == <<symbol_data[s][cursor[s] + 1].name, symbol_data[s][cursor[s] + 1]>>

update_bars_latest_front ==
    [s \in Registered |->
        IF exhausted(s) THEN latest_symbol_data[s]
        ELSE <<get_new_bar(s)>> \o latest_symbol_data[s]]

update_bars_latest ==
    [s \in Registered |->
        IF exhausted(s) THEN latest_symbol_data[s]
        ELSE Append(latest_symbol_data[s], get_new_bar(s))]

update_bars_cursor_restart == cursor

update_bars_cursor ==
    [s \in Registered |-> IF exhausted(s) THEN cursor[s] ELSE cursor[s] + 1]

update_bars_continue_eager ==
    IF \E s \in Registered : cursor[s] + 1 >= Len(symbol_data[s]) THEN FALSE
    ELSE continue_backtest

update_bars_continue ==
    IF \E s \in Registered : exhausted(s) THEN FALSE ELSE continue_backtest

MarketEvent == "MARKET"

update_bars_events_skip ==
    IF \A s \in Registered : exhausted(s) THEN events ELSE Append(events, MarketEvent)

update_bars_events == Append(events, MarketEvent)

update_bars ==
    /\ nAdvance < MaxAdvance
    /\ latest_symbol_data' = update_bars_latest
    /\ cursor' = update_bars_cursor
    /\ continue_backtest' = update_bars_continue
    /\ events' = update_bars_events
    /\ nAdvance' = nAdvance + 1
    /\ result' = Call("update_bars", "", "", 1, Ok(<<>>))
    /\ UNCHANGED <<symbol_list, csv, symbol_data>>

\* ---- accessors ----
\* the Python list slice lst[-N:]
SliceLast(lst, N) ==
    LET len == Len(lst)
        start == IF -N < 0 THEN (IF len - N < 0 THEN 0 ELSE len - N)
                 ELSE (IF -N > len THEN len ELSE -N)
    IN SubSeq(lst, start + 1, len)

\* attributes every pandas Series has besides its labels; `name` stands for them
SeriesAttributes == {"name"}

\* getattr(row, val_type) on the Series of a bar
getattr(row, val_type) ==
    IF val_type \in SeriesAttributes \cup Columns THEN Ok(row[val_type])
    ELSE Raise("AttributeError")

get_latest_bar(symbol) ==
    IF symbol \notin DOMAIN latest_symbol_data THEN Raise("KeyError")
    ELSE LET bars_list == latest_symbol_data[symbol]
         IN IF bars_list = <<>> THEN Raise("IndexError")
            ELSE Ok(bars_list[Len(bars_list)])

get_latest_bars_default(symbol, N) ==
    IF symbol \notin DOMAIN latest_symbol_data THEN Ok(<<>>)
    ELSE Ok(SliceLast(latest_symbol_data[symbol], N))

get_latest_bars(symbol, N) ==
    IF symbol \notin DOMAIN latest_symbol_data THEN Raise("KeyError")
    ELSE Ok(SliceLast(latest_symbol_data[symbol], N))

get_latest_bar_datetime_none(symbol) ==
    IF symbol \notin DOMAIN latest_symbol_data THEN Raise("KeyError")
    ELSE LET bars_list == latest_symbol_data[symbol]
         IN IF bars_list = <<>> THEN Ok(<<>>)
            ELSE Ok(bars_list[Len(bars_list)][1])

get_latest_bar_datetime(symbol) ==
    IF symbol \notin DOMAIN latest_symbol_data THEN Raise("KeyError")
    ELSE LET bars_list == latest_symbol_data[symbol]
         IN IF bars_list = <<>> THEN Raise("IndexError")
            ELSE Ok(bars_list[Len(bars_list)][1])

get_latest_bar_value(symbol, val_type) ==
    IF symbol \notin DOMAIN latest_symbol_data THEN Raise("KeyError")
    ELSE LET bars_list == latest_symbol_data[symbol]
         IN IF bars_list = <<>> THEN Raise("IndexError")
            ELSE getattr(bars_list[Len(bars_list)][2], val_type)

get_latest_bars_values_reversed(symbol, val_type, N) ==
    LET got == get_latest_bars(symbol, N)
    IN IF got.kind = "KeyError" THEN Raise("KeyError")
       ELSE LET bars_list == got.value
            IN IF \E i \in 1..Len(bars_list) : getattr(bars_list[i][2], val_type).kind # "ok"
               THEN Raise("AttributeError")
               ELSE Ok([i \in 1..Len(bars_list) |->
                         getattr(bars_list[Len(bars_list) + 1 - i][2], val_type).value])

get_latest_bars_values(symbol, val_type, N) ==
    LET got == get_latest_bars(symbol, N)
    IN IF got.kind = "KeyError" THEN Raise("KeyError")
       ELSE LET bars_list == got.value
            IN IF \E i \in 1..Len(bars_list) : getattr(bars_list[i][2], val_type).kind # "ok"
               THEN Raise("AttributeError")
               ELSE Ok([i \in 1..Len(bars_list) |-> getattr(bars_list[i][2], val_type).value])

Handler == <<symbol_list, csv, symbol_data, cursor, latest_symbol_data,
             continue_backtest, events, nAdvance>>

GetLatestBar_pop ==
    /\ \E s \in QuerySymbols :
          /\ result' = Call("get_latest_bar", s, "", 1, get_latest_bar(s))
          /\ latest_symbol_data' =
                IF s \in DOMAIN latest_symbol_data /\ latest_symbol_data[s] # <<>>
                THEN [latest_symbol_data EXCEPT
                        ![s] = SubSeq(@, 1, Len(@) - 1)]
                ELSE latest_symbol_data
    /\ UNCHANGED <<symbol_list, csv, symbol_data, cursor, continue_backtest,
                   events, nAdvance>>

GetLatestBar ==
    /\ \E s \in QuerySymbols :
          result' = Call("get_latest_bar", s, "", 1, get_latest_bar(s))
    /\ UNCHANGED Handler

GetLatestBars ==
    /\ \E s \in QuerySymbols, N \in QueryN :
          result' = Call("get_latest_bars", s, "", N, get_latest_bars(s, N))
    /\ UNCHANGED Handler

GetLatestBarDatetime_pull ==
    /\ \E s \in QuerySymbols :
          /\ result' = Call("get_latest_bar_datetime", s, "", 1, get_latest_bar_datetime(s))
          /\ IF s \in Registered /\ ~exhausted(s)
             THEN /\ latest_symbol_data' =
                       [latest_symbol_data EXCEPT ![s] = Append(@, get_new_bar(s))]
                  /\ cursor' = [cursor EXCEPT ![s] = @ + 1]
             ELSE UNCHANGED <<latest_symbol_data, cursor>>
    /\ UNCHANGED <<symbol_list, csv, symbol_data, continue_backtest, events, nAdvance>>

GetLatestBarDatetime ==
    /\ \E s \in QuerySymbols :
          result' = Call("get_latest_bar_datetime", s, "", 1, get_latest_bar_datetime(s))
    /\ UNCHANGED Handler

GetLatestBarValue ==
    /\ \E s \in QuerySymbols, f \in QueryFields :
          result' = Call("get_latest_bar_value", s, f, 1, get_latest_bar_value(s, f))
    /\ UNCHANGED Handler

GetLatestBarsValues ==
    /\ \E s \in QuerySymbols, f \in QueryFields, N \in QueryN :
          result' = Call("get_latest_bars_values", s, f, N, get_latest_bars_values(s, f, N))
    /\ UNCHANGED Handler

Next ==
    \/ update_bars
    \/ GetLatestBar
    \/ GetLatestBars
    \/ GetLatestBarDatetime
    \/ GetLatestBarValue
    \/ GetLatestBarsValues

Spec == Init /\ [][Next]_vars

\* ======================================================================
\* Properties
\* ======================================================================
Accessors == {"get_latest_bar", "get_latest_bars", "get_latest_bar_datetime",
              "get_latest_bar_value", "get_latest_bars_values"}

NativeTimestamps(s) == {csv[s][i].name : i \in DOMAIN csv[s]}

\* the canonical index of the specification: ascending sorted union of all
\* symbols' native timestamps
CanonicalIndex == AscSeq(UNION {NativeTimestamps(s) : s \in Registered})

Min2(a, b) == IF a <= b THEN a ELSE b

\* C1: no-lookahead. After exactly k update_bars calls, 1 <= k <= length of the
\* canonical index, no bar returned by get_latest_bars(symbol, N), N >= 1, for a
\* registered symbol has a timestamp later than the k-th canonical timestamp.
C1_NoLookahead ==
    (/\ result.op = "get_latest_bars"
     /\ result.symbol \in Registered
     /\ result.N >= 1
     /\ nAdvance >= 1
     /\ nAdvance <= Len(CanonicalIndex))
    => \A i \in 1..Len(result.value) : result.value[i][1] <= CanonicalIndex[nAdvance]

\* C2: after construction the index every symbol's series is aligned on is the
\* ascending sorted union of all symbols' native timestamps, one bar per entry.
C2_AlignedOnUnion ==
    \A s \in Registered : Index(symbol_data[s]) = CanonicalIndex

\* C3: forward-fill. For every symbol and every canonical timestamp t at or after
\* the symbol's first native timestamp, the aligned bar at t exists and carries
\* the symbol's native values at its latest native timestamp <= t.
C3_ForwardFill ==
    \A s \in Registered : \A t \in Range(CanonicalIndex) :
        LET earlier == {u \in NativeTimestamps(s) : u <= t}
            at == {i \in DOMAIN symbol_data[s] : symbol_data[s][i].name = t}
        IN earlier # {} =>
             /\ at # {}
             /\ \A i \in at :
                  symbol_data[s][i] = [FileRow(s, SetMax(earlier)) EXCEPT !.name = t]

\* C4: a leading gap fails the load. No constructed handler holds, and
\* update_bars never reveals, a bar whose timestamp precedes the symbol's first
\* native timestamp or whose columns hold no value.
C4_LeadingGapFailsLoad ==
    \A s \in Registered :
        /\ \A i \in DOMAIN symbol_data[s] :
              /\ symbol_data[s][i].name >= SetMin(NativeTimestamps(s))
              /\ \A c \in Columns : symbol_data[s][i][c] # NaN
        /\ \A i \in DOMAIN latest_symbol_data[s] :
              \A c \in Columns : latest_symbol_data[s][i][2][c] # NaN

\* C5: short-history tolerance. get_latest_bars(symbol, N) for a registered
\* symbol and N >= 0 raises nothing and returns exactly min(N, buffer length) bars.
C5_ShortHistory ==
    (/\ result.op = "get_latest_bars"
     /\ result.symbol \in Registered
     /\ result.N >= 0)
    => /\ result.kind = "ok"
       /\ Len(result.value) = Min2(result.N, Len(latest_symbol_data[result.symbol]))

\* C6: after any sequence of operations containing n update_bars calls the event
\* queue has received exactly n market-data markers, and nothing else.
C6_OneMarkerPerAdvance ==
    /\ Len(events) = nAdvance
    /\ \A i \in 1..Len(events) : events[i] = MarketEvent

C6_Witness ==
    /\ ~continue_backtest
    /\ nAdvance >= 3
    /\ \E s \in Registered : Len(latest_symbol_data[s]) >= 1
    /\ result.op \in Accessors
    /\ Len(events) = nAdvance

\* C7: the continuation flag is true from construction through the call that
\* reveals the last bar of the aligned series of length L, false from the
\* (L+1)-th update_bars call on, and no operation sets it back to true.
C7_ContinuationFlag ==
    /\ [](\A s \in Registered : continue_backtest <=> nAdvance <= Len(symbol_data[s]))
    /\ [][continue_backtest' => continue_backtest]_vars

C7_Witness ==
    /\ ~continue_backtest
    /\ result.op = "update_bars"
    /\ \A s \in Registered :
          /\ Len(symbol_data[s]) >= 2
          /\ nAdvance = Len(symbol_data[s]) + 1
          /\ Len(latest_symbol_data[s]) = Len(symbol_data[s])

\* C8: an update_bars call made when the continuation flag is already false
\* raises nothing and leaves every history buffer, every cursor and the flag
\* as they were.
C8_AdvanceAfterExhaustion ==
    [][(nAdvance' = nAdvance + 1 /\ ~continue_backtest)
       => /\ latest_symbol_data' = latest_symbol_data
          /\ cursor' = cursor
          /\ continue_backtest' = continue_backtest
          /\ result'.kind = "ok"]_vars

C8_Witness ==
    /\ ~continue_backtest
    /\ result.op = "update_bars"
    /\ Cardinality(Registered) = 2
    /\ \A s \in Registered :
          /\ Len(latest_symbol_data[s]) >= 1
          /\ nAdvance >= Len(symbol_data[s]) + 3

\* C9: each of the five accessors called with a symbol that is not in the
\* symbol list raises KeyError to its caller, in every state.
C9_UnknownSymbol ==
    (result.op \in Accessors /\ result.symbol \notin Registered)
    => result.kind = "KeyError"

C9_Witness ==
    /\ result.op = "get_latest_bars_values"
    /\ result.symbol \notin Registered
    /\ result.kind = "KeyError"
    /\ ~continue_backtest
    /\ \E s \in Registered : Len(latest_symbol_data[s]) >= 1

\* the field names the specification recognises, with the code's column names
RecognizedFields == Columns \cup {"adjusted_close", "open_interest"}

\* C10: get_latest_bar_value and get_latest_bars_values for a registered symbol
\* and a field name outside the recognized set fail with the unknown-field
\* error (AttributeError), in every state, and never return a value.
C10_UnknownField ==
    (/\ result.op \in {"get_latest_bar_value", "get_latest_bars_values"}
     /\ result.symbol \in Registered
     /\ result.val_type \notin RecognizedFields)
    => result.kind = "AttributeError"

\* a symbol's series aligned on the canonical index, as the specification has it
AlignedOnCanonical(s) == reindex(read_csv(csv, s), CanonicalIndex)

\* C11: revealed prefix. After exactly k update_bars calls, k <= length of the
\* canonical index, each symbol's history buffer is the first k bars of its
\* series aligned on the canonical (union) index, in index order.
C11_RevealedPrefix ==
    \A s \in Registered :
        nAdvance <= Len(CanonicalIndex) =>
            latest_symbol_data[s] =
                [i \in 1..nAdvance |->
                    <<AlignedOnCanonical(s)[i].name, AlignedOnCanonical(s)[i]>>]

\* C12: accessors are read-only. A call of any of the five accessors, returning
\* or raising, leaves every cursor, every history buffer, the continuation flag
\* and the event queue unchanged; a step that changes one of them is update_bars.
C12_AccessorsReadOnly ==
    [][/\ result'.op \in Accessors
          => UNCHANGED <<cursor, latest_symbol_data, continue_backtest, events>>
       /\ ~(UNCHANGED <<cursor, latest_symbol_data, continue_backtest, events>>)
          => (result'.op = "update_bars" /\ nAdvance' = nAdvance + 1)]_vars

C12_Witness ==
    /\ result.op = "get_latest_bar_value"
    /\ result.symbol \in Registered
    /\ result.kind = "AttributeError"
    /\ nAdvance >= 2
    /\ Len(events) = nAdvance
    /\ \A s \in Registered : cursor[s] = 2 /\ Len(latest_symbol_data[s]) = 2

\* the outcome of making the call c in the current state
Reissue(c) ==
    CASE c.op = "get_latest_bar" -> get_latest_bar(c.symbol)
      [] c.op = "get_latest_bars" -> get_latest_bars(c.symbol, c.N)
      [] c.op = "get_latest_bar_datetime" -> get_latest_bar_datetime(c.symbol)
      [] c.op = "get_latest_bar_value" -> get_latest_bar_value(c.symbol, c.val_type)
      [] c.op = "get_latest_bars_values" ->
            get_latest_bars_values(c.symbol, c.val_type, c.N)

SameOutcome(out, c) == out.kind = c.kind /\ out.value = c.value

\* C13: idempotent reads. Making the last accessor call again, with the same
\* arguments and no update_bars in between, gives the outcome it gave (the same
\* value or the same error), also when another accessor call came in between.
C13_IdempotentReads ==
    /\ [](result.op \in Accessors => SameOutcome(Reissue(result), result))
    /\ [][(result.op \in Accessors /\ result'.op \in Accessors)
            => \A c \in {result} : SameOutcome(Reissue(c), c)']_vars

C13_Witness ==
    /\ result.op = "get_latest_bars_values"
    /\ result.symbol \in Registered
    /\ result.val_type \in Columns
    /\ result.N = 2
    /\ result.kind = "ok"
    /\ Len(result.value) = 2
    /\ SameOutcome(Reissue(result), result)

IsPrefix(a, b) == Len(a) <= Len(b) /\ SubSeq(b, 1, Len(a)) = a

\* C14: history buffers are append-only. Every buffer is empty after
\* construction; across any operation the old buffer is a prefix of the new
\* one; update_bars appends at most one bar per symbol, exactly one while the
\* symbol's sequence is not exhausted, and no other operation appends.
C14_AppendOnly ==
    /\ [](nAdvance = 0 => \A s \in Registered : latest_symbol_data[s] = <<>>)
    /\ [][\A s \in Registered :
            /\ IsPrefix(latest_symbol_data[s], latest_symbol_data'[s])
            /\ Len(latest_symbol_data'[s]) <= Len(latest_symbol_data[s]) + 1
            /\ (nAdvance' = nAdvance + 1 /\ ~exhausted(s))
                 => Len(latest_symbol_data'[s]) = Len(latest_symbol_data[s]) + 1
            /\ nAdvance' = nAdvance
                 => latest_symbol_data'[s] = latest_symbol_data[s]]_vars

C14_Witness ==
    /\ result.op = "update_bars"
    /\ nAdvance = 4
    /\ \E s \in Registered : Len(latest_symbol_data[s]) = 3
    /\ \A s \in Registered : exhausted(s)

\* C15: cursor invariant. Every cursor starts at 0, moves forward by exactly one
\* in every update_bars call made while its sequence is not exhausted, never
\* moves backward, never exceeds the series length and always equals the length
\* of the symbol's history buffer, which holds the aligned bars passed so far,
\* each once and in order.
C15_CursorInvariant ==
    /\ [](\A s \in Registered :
            /\ nAdvance = 0 => cursor[s] = 0
            /\ cursor[s] <= Len(symbol_data[s])
            /\ cursor[s] = Len(latest_symbol_data[s])
            /\ \A i \in 1..Len(latest_symbol_data[s]) :
                  latest_symbol_data[s][i] = <<symbol_data[s][i].name, symbol_data[s][i]>>)
    /\ [][\A s \in Registered :
            /\ cursor'[s] >= cursor[s]
            /\ (nAdvance' = nAdvance + 1 /\ ~exhausted(s))
                 => cursor'[s] = cursor[s] + 1]_vars

C15_Witness ==
    /\ result.op = "update_bars"
    /\ Cardinality(Registered) = 2
    /\ \A s \in Registered :
          /\ cursor[s] = Len(symbol_data[s])
          /\ cursor[s] >= 2
          /\ nAdvance = cursor[s] + 2

\* C16: for a registered symbol, a column and N >= 1, get_latest_bars_values
\* returns the column read from each bar of get_latest_bars(symbol, N), element
\* by element; that order is the buffer's, oldest revealed bar first; and its
\* last element is get_latest_bar_value(symbol, column) when the buffer is not
\* empty.
C16_ValuesMatchBars ==
    (/\ result.op = "get_latest_bars_values"
     /\ result.symbol \in Registered
     /\ result.val_type \in Columns
     /\ result.N >= 1)
    => LET bars == get_latest_bars(result.symbol, result.N).value
           buf == latest_symbol_data[result.symbol]
       IN /\ result.kind = "ok"
          /\ Len(result.value) = Len(bars)
          /\ \A i \in 1..Len(bars) : result.value[i] = bars[i][2][result.val_type]
          /\ bars = SubSeq(buf, Len(buf) - Len(bars) + 1, Len(buf))
          /\ buf # <<>> =>
                /\ result.value # <<>>
                /\ result.value[Len(result.value)] =
                      get_latest_bar_value(result.symbol, result.val_type).value

C16_Witness ==
    /\ result.op = "get_latest_bars_values"
    /\ result.symbol \in Registered
    /\ result.val_type = "close"
    /\ result.N = 2
    /\ Len(latest_symbol_data[result.symbol]) = 3
    /\ Len(result.value) = 2
    /\ result.value[1] # result.value[2]

\* C17: lockstep. In every state all registered symbols' history buffers have
\* the same length and the same sequence of timestamps, and in every
\* update_bars call either every symbol yields a bar or every symbol is exhausted.
C17_Lockstep ==
    \A s \in Registered, u \in Registered :
        /\ Len(latest_symbol_data[s]) = Len(latest_symbol_data[u])
        /\ \A i \in 1..Len(latest_symbol_data[s]) :
              latest_symbol_data[s][i][1] = latest_symbol_data[u][i][1]
        /\ exhausted(s) <=> exhausted(u)

C17_Witness ==
    /\ Cardinality(Registered) = 2
    /\ \A s \in Registered : exhausted(s) /\ Len(latest_symbol_data[s]) >= 2
    /\ \E s \in Registered :
          Len(csv[s]) < Len(latest_symbol_data[s])
    /\ ~continue_backtest

C19_ClockAscending ==
    /\ [](\A s \in Registered :
            \A i \in 1..Len(latest_symbol_data[s]), j \in 1..Len(latest_symbol_data[s]) :
                i < j => latest_symbol_data[s][i][1] < latest_symbol_data[s][j][1])
    /\ [][nAdvance' = nAdvance + 1 =>
            \A s \in Registered :
                IF exhausted(s)
                THEN get_latest_bar_datetime(s)' = get_latest_bar_datetime(s)
                ELSE /\ get_latest_bar_datetime(s)'.kind = "ok"
                     /\ latest_symbol_data[s] # <<>> =>
                           get_latest_bar_datetime(s)'.value >
                               get_latest_bar_datetime(s).value]_vars

C19_Witness ==
    /\ result.op = "update_bars"
    /\ nAdvance = 5
    /\ Cardinality(Registered) = 2
    /\ \A s \in Registered :
          /\ Len(latest_symbol_data[s]) = 3
          /\ csv[s][1].name > csv[s][Len(csv[s])].name
====
